---------------------------- MODULE Spec2Model ----------------------------
(***************************************************************************)
(* du-by-user: a model of src/src/main.rs.                                 *)
(*                                                                         *)
(* The program parses its command line, walks a directory tree, adds the   *)
(* size of every regular file to a per-UID total, sorts the totals and     *)
(* prints one line per UID.                                                *)
(*                                                                         *)
(* u64 values do not fit TLC's integers, so a u64 is a sequence of limbs   *)
(* in base 1000 (three decimal digits each), least significant first,      *)
(* without leading zero limbs (zero is <<>>).                              *)
(***************************************************************************)
EXTENDS Integers, Sequences, FiniteSets, TLC

(***************************************************************************)
(* Natural-number arithmetic on limb sequences.                            *)
(***************************************************************************)

RECURSIVE Norm(_)
\* Drop the zero limbs above the most significant one.
Norm(a) ==
    IF a = <<>> THEN <<>>
    ELSE IF a[Len(a)] = 0 THEN Norm(SubSeq(a, 1, Len(a) - 1))
    ELSE a

RECURSIVE Rev(_)
Rev(s) == IF s = <<>> THEN <<>> ELSE Append(Rev(Tail(s)), Head(s))

\* The number written in decimal in groups of three digits, most significant
\* group first, as in the source's 1_099_511_627_776.
Dec(groups) == Norm(Rev(groups))

Limb(a, i) == IF i <= Len(a) THEN a[i] ELSE 0

MaxOf(m, n) == IF m >= n THEN m ELSE n

RECURSIVE LessFrom(_, _, _)
\* a < b, given that the limbs above position i agree.
LessFrom(a, b, i) ==
    IF i = 0 THEN FALSE
    ELSE IF Limb(a, i) # Limb(b, i) THEN Limb(a, i) < Limb(b, i)
    ELSE LessFrom(a, b, i - 1)

Less(a, b) == LessFrom(a, b, MaxOf(Len(a), Len(b)))

Leq(a, b) == ~Less(b, a)

RECURSIVE AddFrom(_, _, _, _)
AddFrom(a, b, i, carry) ==
    IF i > MaxOf(Len(a), Len(b))
    THEN IF carry = 0 THEN <<>> ELSE <<carry>>
    ELSE LET s == Limb(a, i) + Limb(b, i) + carry
         IN  <<s % 1000>> \o AddFrom(a, b, i + 1, s \div 1000)

\* a + b, unbounded.
AddN(a, b) == Norm(AddFrom(a, b, 1, 0))

RECURSIVE SubFrom(_, _, _, _)
SubFrom(a, b, i, borrow) ==
    IF i > Len(a) THEN <<>>
    ELSE LET s == Limb(a, i) - Limb(b, i) - borrow
         IN  IF s < 0
             THEN <<s + 1000>> \o SubFrom(a, b, i + 1, 1)
             ELSE <<s>> \o SubFrom(a, b, i + 1, 0)

\* a - b, for b <= a.
SubN(a, b) == Norm(SubFrom(a, b, 1, 0))

RECURSIVE MulLimbFrom(_, _, _, _)
MulLimbFrom(a, k, i, carry) ==
    IF i > Len(a)
    THEN IF carry = 0 THEN <<>> ELSE <<carry>>
    ELSE LET s == a[i] * k + carry
         IN  <<s % 1000>> \o MulLimbFrom(a, k, i + 1, s \div 1000)

\* a * k, for a limb k.
MulLimb(a, k) == Norm(MulLimbFrom(a, k, 1, 0))

RECURSIVE MulFrom(_, _, _)
\* a * (the limbs of b from position i up), schoolbook.
MulFrom(a, b, i) ==
    IF i > Len(b) THEN <<>>
    ELSE AddN(MulLimb(a, b[i]), Norm(<<0>> \o MulFrom(a, b, i + 1)))

\* a * b, unbounded.
MulN(a, b) == MulFrom(a, b, 1)

RECURSIVE QuotLimb(_, _, _, _)
\* The largest k in lo..hi with k * d <= r, given lo * d <= r: bisection.
QuotLimb(r, d, lo, hi) ==
    IF lo = hi THEN lo
    ELSE LET mid == (lo + hi + 1) \div 2
         IN  IF Leq(MulLimb(d, mid), r)
             THEN QuotLimb(r, d, mid, hi)
             ELSE QuotLimb(r, d, lo, mid - 1)

RECURSIVE DivFrom(_, _, _)
\* Long division: <<quotient, remainder>> of the limbs of a from position i
\* up, divided by d.
DivFrom(a, d, i) ==
    IF i > Len(a) THEN << <<>>, <<>> >>
    ELSE LET upper == DivFrom(a, d, i + 1)
             r     == Norm(<<a[i]>> \o upper[2])
             k     == QuotLimb(r, d, 0, 999)
         IN  << <<k>> \o upper[1], SubN(r, MulLimb(d, k)) >>

\* a div d, truncating, for d > 0.
DivN(a, d) == Norm(DivFrom(a, d, 1)[1])

(***************************************************************************)
(* u64: Rust's unsigned 64-bit integers.                                   *)
(***************************************************************************)

\* 2^64
Two64 == Dec(<<18, 446, 744, 073, 709, 551, 616>>)

U64_MAX == SubN(Two64, <<1>>)

RECURSIVE Wrap64(_)
\* The value modulo 2^64.
Wrap64(a) == IF Less(a, Two64) THEN a ELSE Wrap64(SubN(a, Two64))

\* a * b on u64, modulo 2^64 (10 times a divisor of the tables stays below it).
MulU64(a, b) == Wrap64(MulN(a, b))

\* a / b on u64.
DivU64(a, b) == DivN(a, b)

(***************************************************************************)
(* The divisor tables.                                                     *)
(***************************************************************************)

DIVISORS_SI ==
    << <<Dec(<<1, 000, 000, 000, 000>>), "T">>,
       <<Dec(<<1, 000, 000, 000>>), "G">>,
       <<Dec(<<1, 000, 000>>), "M">>,
       <<Dec(<<1, 000>>), "K">> >>

DIVISORS_NON_SI ==
    << <<Dec(<<1, 099, 511, 627, 776>>), "T">>,
       <<Dec(<<1, 073, 741, 824>>), "G">>,
       <<Dec(<<1, 048, 576>>), "M">>,
       <<Dec(<<1, 024>>), "K">> >>

(***************************************************************************)
(* SizeMode and SizeFormatter.                                             *)
(***************************************************************************)

SizeMode == {"Bytes", "Kilobytes", "Megabytes", "Gigabytes", "Human"}

\* Option<&'static str>: <<>> is None, <<u>> is Some(u).
None == <<>>
Some(u) == <<u>>

\* A variant that rounds to the nearest unit instead of truncating.
get_parts_divisor_rounding(size, divisor) ==
    <<DivU64(AddN(size, DivU64(divisor, Dec(<<2>>))), divisor), None>>

get_parts_divisor(size, divisor) == <<DivU64(size, divisor), None>>

RECURSIVE HumanScan(_, _, _)
\* The for loop of get_parts_human, from table position i on.
HumanScan(divisors, i, size) ==
    IF i > Len(divisors) THEN <<size, Some("B")>>
    ELSE LET divisor == divisors[i][1]
             unit    == divisors[i][2]
         IN  IF Less(MulU64(divisor, Dec(<<10>>)), size)
             THEN <<DivU64(size, divisor), Some(unit)>>
             ELSE HumanScan(divisors, i + 1, size)

RECURSIVE HumanScanAtLeast(_, _, _)
HumanScanAtLeast(divisors, i, size) ==
    IF i > Len(divisors) THEN <<size, Some("B")>>
    ELSE LET divisor == divisors[i][1]
             unit    == divisors[i][2]
         IN  IF Leq(MulU64(divisor, Dec(<<10>>)), size)
             THEN <<DivU64(size, divisor), Some(unit)>>
             ELSE HumanScanAtLeast(divisors, i + 1, size)

\* A variant whose threshold is size >= divisor * 10.
get_parts_human_at_least(self, size) ==
    HumanScanAtLeast(IF self.si THEN DIVISORS_SI ELSE DIVISORS_NON_SI, 1, size)

RECURSIVE HumanScanUnscaled(_, _, _)
HumanScanUnscaled(divisors, i, size) ==
    IF i > Len(divisors) THEN <<size, Some("B")>>
    ELSE LET divisor == divisors[i][1]
             unit    == divisors[i][2]
         IN  IF Less(divisor, size)
             THEN <<DivU64(size, divisor), Some(unit)>>
             ELSE HumanScanUnscaled(divisors, i + 1, size)

\* A variant whose threshold is size > divisor.
get_parts_human_unscaled(self, size) ==
    HumanScanUnscaled(IF self.si THEN DIVISORS_SI ELSE DIVISORS_NON_SI, 1, size)

get_parts_human(self, size) ==
    HumanScan(IF self.si THEN DIVISORS_SI ELSE DIVISORS_NON_SI, 1, size)

get_parts(self, size) ==
    CASE self.mode = "Bytes" -> <<size, None>>
      [] self.mode = "Kilobytes" /\ ~self.si ->
            get_parts_divisor(size, Dec(<<1, 024>>))
      [] self.mode = "Kilobytes" /\ self.si ->
            get_parts_divisor(size, Dec(<<1, 000>>))
      [] self.mode = "Megabytes" /\ ~self.si ->
            get_parts_divisor(size, Dec(<<1, 048, 576>>))
      [] self.mode = "Megabytes" /\ self.si ->
            get_parts_divisor(size, Dec(<<1, 000, 000>>))
      [] self.mode = "Gigabytes" /\ ~self.si ->
            get_parts_divisor(size, Dec(<<1, 073, 741, 824>>))
      [] self.mode = "Gigabytes" /\ self.si ->
            get_parts_divisor(size, Dec(<<1, 000, 000, 000>>))
      [] self.mode = "Human" -> get_parts_human(self, size)

DigitChar == <<"0", "1", "2", "3", "4", "5", "6", "7", "8", "9">>

\* A limb below the most significant one: three digits, zeros included.
LimbToString(k) ==
    DigitChar[(k \div 100) + 1] \o DigitChar[((k \div 10) % 10) + 1]
        \o DigitChar[(k % 10) + 1]

RECURSIVE LimbsToString(_, _)
LimbsToString(a, i) ==
    IF i = 0 THEN "" ELSE LimbToString(a[i]) \o LimbsToString(a, i - 1)

\* u64's Display: decimal, no leading zeros, "0" for zero.
U64ToString(a) ==
    IF a = <<>> THEN "0"
    ELSE ToString(a[Len(a)]) \o LimbsToString(a, Len(a) - 1)

\* FormattedSize's Display: the base, then the unit if there is one.
FormattedSize_fmt(self, size) ==
    LET parts == get_parts(self, size)
    IN  U64ToString(parts[1]) \o (IF parts[2] = None THEN "" ELSE parts[2][1])

(***************************************************************************)
(* The command line.                                                       *)
(***************************************************************************)

\* The members of the ArgGroup "output".
OutputGroup == {"bytes", "kilobytes", "megabytes", "gigabytes", "human"}

\* The command lines: which output flags are given, and whether --si is.
Argv == [flags : SUBSET OutputGroup, si : BOOLEAN]

\* cli().get_matches(): an ArgGroup admits one of its members at most; with
\* two present clap reports the conflict and exits.
\* A variant without the ArgGroup: nothing conflicts.
cli_without_group(args) == FALSE

cli_rejects(args) == Cardinality(args.flags \cap OutputGroup) > 1

SizeMode_from_matches(matches) ==
    IF "gigabytes" \in matches.flags THEN "Gigabytes"
    ELSE IF "megabytes" \in matches.flags THEN "Megabytes"
    ELSE IF "kilobytes" \in matches.flags THEN "Kilobytes"
    ELSE IF "human" \in matches.flags THEN "Human"
    ELSE "Bytes"

SizeFormatter_from_matches(matches) ==
    [si |-> matches.si, mode |-> SizeMode_from_matches(matches)]

(***************************************************************************)
(* The filesystem and the user database: the program's environment.        *)
(***************************************************************************)

\* How many directory entries a tree holds at most.
MaxEntries == 3

UIDs == {0, 1000}

\* The largest st_size: 2^63 - 1.
OFF_T_MAX == Dec(<<9, 223, 372, 036, 854, 775, 807>>)

FileSizes == {Dec(<<6, 000>>), OFF_T_MAX}

\* What the walker can yield. An "error" entry is one the walker fails on, or
\* whose metadata lookup fails: it has no metadata to read.
Entries ==
    {[kind |-> "file", uid |-> u, size |-> s] : u \in UIDs, s \in FileSizes}
    \cup {[kind |-> "dir", uid |-> 0, size |-> Dec(<<4, 096>>)],
          [kind |-> "symlink", uid |-> 1000, size |-> Dec(<<11>>)],
          [kind |-> "error", uid |-> 0, size |-> <<>>]}

\* entry.and_then(|e| e.metadata()) is Ok.
metadata_ok(e) == e.kind # "error"

\* A variant that takes whatever is not a directory for a file.
is_not_dir(e) == e.kind # "dir"

\* Metadata::is_file
is_file(e) == e.kind = "file"

\* A tree is the multiset of its entries (the program never reads a path).
EmptyTree == [e \in Entries |-> 0]

TreeAdd(t, e) == [t EXCEPT ![e] = @ + 1]

TreeRemove(t, e) == [t EXCEPT ![e] = @ - 1]

RECURSIVE TreesOfSize(_)
TreesOfSize(n) ==
    IF n = 0 THEN {EmptyTree}
    ELSE {TreeAdd(t, e) : t \in TreesOfSize(n - 1), e \in Entries}

\* A root that opens is yielded itself, so the tree is not empty.
Trees == UNION {TreesOfSize(n) : n \in 1..MaxEntries}

\* What WalkDir yields for a root that cannot be opened: one error, then the end.
MissingRoot == TreeAdd(EmptyTree, [kind |-> "error", uid |-> 0, size |-> <<>>])

\* users::get_user_by_uid, on a host whose database knows root only.
get_user_by_uid(uid) == IF uid = 0 THEN Some("root") ELSE None

(***************************************************************************)
(* The state.                                                              *)
(***************************************************************************)

VARIABLES
    pc,         \* where main() is: "start", "open", "walk", "print", "done"
                \* (the formatter on its own: "wrap", "parts", "shown")
    argv,       \* the command line
    formatter,  \* SizeFormatter
    root_opened, \* whether the walker could open the root
    tree,       \* what the walker yields in all: the root and what is under it
    walker,     \* the entries the walker has yet to yield
    by_user,    \* HashMap<u32, u64>
    sorted,     \* the vector sorted_by_key built: <<uid, total>> pairs
    stdout,     \* the lines printed
    stderr,     \* whether anything was written to stderr
    exit_code,  \* <<>> while running, <<code>> once exited
    earlier,    \* <<>> or <<stdout of an earlier run on the same tree>>
    probe,      \* the size handed to the formatter on its own
    parts,      \* what get_parts returned for it
    text        \* what Display rendered for it

vars == <<pc, argv, formatter, root_opened, tree, walker, by_user, sorted, stdout, stderr,
          exit_code, earlier, probe, parts, text>>

fmtvars == <<probe, parts, text>>

NoFormatter == [si |-> FALSE, mode |-> "Bytes"]

EmptyMap == [u \in {} |-> <<>>]

Init ==
    /\ pc = "start"
    /\ argv \in Argv
    /\ formatter = NoFormatter
    /\ root_opened = FALSE
    /\ tree = EmptyTree
    /\ walker = EmptyTree
    /\ by_user = EmptyMap
    /\ sorted = <<>>
    /\ stdout = <<>>
    /\ stderr = FALSE
    /\ exit_code = <<>>
    /\ earlier = <<>>
    /\ probe = <<>>
    /\ parts = <<>>
    /\ text = ""

(***************************************************************************)
(* main()                                                                  *)
(***************************************************************************)

\* let matches = cli().get_matches(); let formatter = ...
Parse ==
    /\ pc = "start"
    /\ IF cli_rejects(argv)
       THEN /\ pc' = "done"
            /\ stderr' = TRUE
            /\ exit_code' = <<2>>
            /\ UNCHANGED formatter
       ELSE /\ pc' = "open"
            /\ formatter' = SizeFormatter_from_matches(argv)
            /\ UNCHANGED <<stderr, exit_code>>
    /\ UNCHANGED <<argv, root_opened, tree, walker, by_user, sorted, stdout,
                   earlier, fmtvars>>

\* let mut by_user = HashMap::new(); let walker = WalkDir::new(path)
OpenWalker ==
    /\ pc = "open"
    /\ \/ \E t \in Trees : tree' = t /\ root_opened' = TRUE
       \/ tree' = MissingRoot /\ root_opened' = FALSE
    /\ walker' = tree'
    /\ by_user' = EmptyMap
    /\ pc' = "walk"
    /\ UNCHANGED <<argv, formatter, sorted, stdout, stderr, exit_code, earlier,
                   fmtvars>>

\* *by_user.entry(uid).or_insert_with(|| 0) += size, when the sum fits.
Accumulate(map, uid, total) ==
    [u \in DOMAIN map \cup {uid} |-> IF u = uid THEN total ELSE map[u]]

\* The value of by_user.entry(uid).or_insert_with(|| 0)
EntryOrZero(map, uid) == IF uid \in DOMAIN map THEN map[uid] ELSE <<>>

\* One iteration of `for entry in walker`.
WalkEntry ==
    /\ pc = "walk"
    /\ \E e \in Entries :
        /\ walker[e] > 0
        /\ walker' = TreeRemove(walker, e)
        /\ IF metadata_ok(e) /\ is_file(e)
           THEN LET sum == AddN(EntryOrZero(by_user, e.uid), e.size)
                IN  IF Less(sum, Two64)
                    THEN /\ by_user' = Accumulate(by_user, e.uid, sum)
                         /\ UNCHANGED <<pc, stderr, exit_code>>
                    ELSE \* u64 overflow: a build with overflow checks panics,
                         \* one without them wraps.
                         \/ /\ by_user' = Accumulate(by_user, e.uid, Wrap64(sum))
                            /\ UNCHANGED <<pc, stderr, exit_code>>
                         \/ /\ pc' = "done"
                            /\ stderr' = TRUE
                            /\ exit_code' = <<101>>
                            /\ UNCHANGED by_user
           ELSE UNCHANGED <<by_user, pc, stderr, exit_code>>
    /\ UNCHANGED <<argv, formatter, root_opened, tree, sorted, stdout, earlier,
                   fmtvars>>

\* The orders in which a HashMap's into_iter can yield its pairs.
IterationOrders(map) ==
    LET n == Cardinality(DOMAIN map)
    IN  {[i \in 1..n |-> <<f[i], map[f[i]]>>] :
            f \in {g \in [1..n -> DOMAIN map] :
                      \A i, j \in 1..n : i # j => g[i] # g[j]}}

RECURSIVE InsertByKey(_, _)
\* x put into the sorted s behind every element whose key is not larger.
InsertByKey(s, x) ==
    IF s = <<>> THEN <<x>>
    ELSE IF Less(x[2], s[Len(s)][2])
         THEN Append(InsertByKey(SubSeq(s, 1, Len(s) - 1), x), s[Len(s)])
         ELSE Append(s, x)

\* A variant that keeps the map's iteration order.
not_sorted(s) == s

RECURSIVE sorted_by_key(_)
\* A stable sort on the total: |&(_, v)| v
sorted_by_key(s) ==
    IF s = <<>> THEN <<>>
    ELSE InsertByKey(sorted_by_key(SubSeq(s, 1, Len(s) - 1)), s[Len(s)])

\* The loop has ended: by_user.into_iter().sorted_by_key(|&(_, v)| v)
Collect ==
    /\ pc = "walk"
    /\ walker = EmptyTree
    /\ \E order \in IterationOrders(by_user) : sorted' = sorted_by_key(order)
    /\ pc' = "print"
    /\ UNCHANGED <<argv, formatter, root_opened, tree, walker, by_user, stdout,
                   stderr, exit_code, earlier, fmtvars>>

\* The name printed for a UID.
user_name(user_id) ==
    LET u == get_user_by_uid(user_id)
    IN  IF u = None THEN ToString(user_id) ELSE u[1]

\* println!("{}\t{}", formatter.wrap(size), u)
Line(fmt, user_id, size) ==
    FormattedSize_fmt(fmt, size) \o "\t" \o user_name(user_id)

\* One call of the for_each closure.
PrintLine ==
    /\ pc = "print"
    /\ Len(stdout) < Len(sorted)
    /\ LET item == sorted[Len(stdout) + 1]
       IN  stdout' = Append(stdout, Line(formatter, item[1], item[2]))
    /\ UNCHANGED <<pc, argv, formatter, root_opened, tree, walker, by_user,
                   sorted, stderr, exit_code, earlier, fmtvars>>

\* main returns.
Exit ==
    /\ pc = "print"
    /\ Len(stdout) = Len(sorted)
    /\ pc' = "done"
    /\ exit_code' = <<0>>
    /\ UNCHANGED <<argv, formatter, root_opened, tree, walker, by_user, sorted,
                   stdout, stderr, earlier, fmtvars>>

\* The program is run again, on the same command line and the same tree.
RunAgain ==
    /\ pc = "done"
    /\ exit_code = <<0>>
    /\ earlier = <<>>
    /\ earlier' = <<stdout>>
    /\ walker' = tree
    /\ by_user' = EmptyMap
    /\ sorted' = <<>>
    /\ stdout' = <<>>
    /\ exit_code' = <<>>
    /\ pc' = "walk"
    /\ UNCHANGED <<argv, formatter, root_opened, tree, stderr, fmtvars>>

Next ==
    \/ Parse
    \/ OpenWalker
    \/ WalkEntry
    \/ Collect
    \/ PrintLine
    \/ Exit
    \/ RunAgain

Spec == Init /\ [][Next]_vars

(***************************************************************************)
(* The formatter on its own: a SizeFormatter is handed one size.           *)
(***************************************************************************)

\* How far around each threshold 10 * D the sizes handed over reach.
MaxDelta == 1

Small(k) == Norm(<<k>>)

Ten == Dec(<<10>>)

AllDivisors ==
    {DIVISORS_SI[i][1] : i \in 1..Len(DIVISORS_SI)}
    \cup {DIVISORS_NON_SI[i][1] : i \in 1..Len(DIVISORS_NON_SI)}

ProbeSizes ==
    {AddN(MulN(d, Ten), Small(k)) : d \in AllDivisors, k \in 0..MaxDelta}
    \cup {SubN(MulN(d, Ten), Small(k)) : d \in AllDivisors, k \in 0..MaxDelta}
    \cup {<<>>, Dec(<<1, 500>>), Dec(<<9, 999>>), Dec(<<20, 480>>),
          Dec(<<1, 572, 864>>), OFF_T_MAX, U64_MAX}

InitFmt ==
    /\ pc = "wrap"
    /\ argv \in Argv
    /\ ~cli_rejects(argv)
    /\ formatter = SizeFormatter_from_matches(argv)
    /\ probe \in ProbeSizes
    /\ parts = <<>>
    /\ text = ""
    /\ root_opened = FALSE
    /\ tree = EmptyTree
    /\ walker = EmptyTree
    /\ by_user = EmptyMap
    /\ sorted = <<>>
    /\ stdout = <<>>
    /\ stderr = FALSE
    /\ exit_code = <<>>
    /\ earlier = <<>>

\* formatter.get_parts(size)
GetParts ==
    /\ pc = "wrap"
    /\ parts' = get_parts(formatter, probe)
    /\ pc' = "parts"
    /\ UNCHANGED <<argv, formatter, root_opened, tree, walker, by_user, sorted,
                   stdout, stderr, exit_code, earlier, probe, text>>

\* write!(f, "{}", formatter.wrap(size))
Display ==
    /\ pc = "parts"
    /\ text' = FormattedSize_fmt(formatter, probe)
    /\ pc' = "shown"
    /\ UNCHANGED <<argv, formatter, root_opened, tree, walker, by_user, sorted,
                   stdout, stderr, exit_code, earlier, probe, parts>>

NextFmt ==
    \/ GetParts
    \/ Display

SpecFmt == InitFmt /\ [][NextFmt]_vars

(***************************************************************************)
(* What the properties below are stated with.                              *)
(***************************************************************************)

One == Dec(<<1>>)

\* q is a div d: q * d <= a < (q + 1) * d.
IsQuotient(q, a, d) ==
    /\ Leq(MulN(q, d), a)
    /\ Less(a, MulN(AddN(q, One), d))

\* The entries the walker has yielded so far.
Visited == [e \in Entries |-> tree[e] - walker[e]]

RECURSIVE SizeSum(_, _, _)
\* The sum of the sizes of the regular files of t that S holds and u owns,
\* each counted as often as t holds it.
SizeSum(S, t, u) ==
    IF S = {} THEN <<>>
    ELSE LET e == CHOOSE x \in S : TRUE
         IN  AddN(IF e.kind = "file" /\ e.uid = u
                  THEN MulLimb(e.size, t[e]) ELSE <<>>,
                  SizeSum(S \ {e}, t, u))

OwnedBytes(t, u) == SizeSum(Entries, t, u)

RECURSIVE MapSum(_, _)
MapSum(map, S) ==
    IF S = {} THEN <<>>
    ELSE LET u == CHOOSE x \in S : TRUE
         IN  AddN(map[u], MapSum(map, S \ {u}))

RECURSIVE AllBytes(_, _)
AllBytes(t, S) ==
    IF S = {} THEN <<>>
    ELSE LET u == CHOOSE x \in S : TRUE
         IN  AddN(OwnedBytes(t, u), AllBytes(t, S \ {u}))

TraversalEnded ==
    \/ pc = "walk" /\ walker = EmptyTree
    \/ pc = "print"
    \/ pc = "done" /\ exit_code = <<0>>

ActiveTable == IF formatter.si THEN DIVISORS_SI ELSE DIVISORS_NON_SI

HumanParts == pc \in {"parts", "shown"} /\ formatter.mode = "Human"

\* The table positions whose divisor D has probe > 10 * D.
Qualifying == {i \in 1..Len(ActiveTable) : Less(MulN(ActiveTable[i][1], Ten), probe)}

\* The position of the largest divisor among those of I.
Largest(I) ==
    CHOOSE i \in I : \A j \in I : Leq(ActiveTable[j][1], ActiveTable[i][1])

(***************************************************************************)
(* C1                                                                      *)
(***************************************************************************)

\* C1: when the root cannot be opened the run is fatal: nothing on stdout, an
\* error on stderr and exit code 1.
C1_MissingRootIsFatal ==
    (pc = "done" /\ ~cli_rejects(argv) /\ ~root_opened)
        => (stdout = <<>> /\ stderr /\ exit_code = <<1>>)

(***************************************************************************)
(* C2                                                                      *)
(***************************************************************************)

\* C2: when traversal ends, the total stored for each UID of the Aggregate is
\* the sum of the sizes of the regular files that UID owns, and the totals add
\* up to the sizes of all regular files.
C2_TotalsAreSums ==
    TraversalEnded =>
        /\ \A u \in DOMAIN by_user : by_user[u] = OwnedBytes(tree, u)
        /\ MapSum(by_user, DOMAIN by_user) = AllBytes(tree, UIDs)

\* C2, where no total reaches 2^64: the totals are the sums.
C2_TotalsAreSumsBelowOverflow ==
    (TraversalEnded /\ \A u \in UIDs : Less(OwnedBytes(tree, u), Two64)) =>
        /\ \A u \in DOMAIN by_user : by_user[u] = OwnedBytes(tree, u)
        /\ MapSum(by_user, DOMAIN by_user) = AllBytes(tree, UIDs)

(***************************************************************************)
(* C3                                                                      *)
(***************************************************************************)

\* C3: the report has one line per UID of the Aggregate, none twice and none
\* left out, and its lines are non-decreasing in the byte total (the total,
\* not the number printed).
C3_OneLinePerUidAscending ==
    (pc = "print" \/ (pc = "done" /\ exit_code = <<0>>)) =>
        /\ Len(sorted) = Cardinality(DOMAIN by_user)
        /\ {sorted[i][1] : i \in 1..Len(sorted)} = DOMAIN by_user
        /\ Len(stdout) <= Len(sorted)
        /\ pc = "done" => Len(stdout) = Len(sorted)
        /\ \A i \in 1..Len(stdout) :
              stdout[i] = Line(formatter, sorted[i][1], by_user[sorted[i][1]])
        /\ \A i, j \in 1..Len(stdout) :
              i < j => Leq(by_user[sorted[i][1]], by_user[sorted[j][1]])

\* A report of two lines where the smaller total prints the larger number.
C3_Witness ==
    /\ pc = "done"
    /\ stdout = <<"6000B\t1000", "11K\troot">>

(***************************************************************************)
(* C4                                                                      *)
(***************************************************************************)

\* C4: two runs on the same tree and the same command line print the same
\* lines in the same order.
C4_RunsPrintTheSame ==
    (pc = "done" /\ exit_code = <<0>> /\ earlier # <<>>) => stdout = earlier[1]

(***************************************************************************)
(* C5                                                                      *)
(***************************************************************************)

\* C5: in Human mode get_parts returns (size div D, unit of D) for the largest
\* D of the active table with size > 10 * D, and (size, "B") when there is
\* none; so 10 * D is rendered one tier below D and 10 * D + 1 at tier D.
C5_HumanThreshold ==
    HumanParts =>
        /\ IF Qualifying = {}
           THEN parts = <<probe, Some("B")>>
           ELSE LET i == Largest(Qualifying)
                IN  /\ parts[2] = Some(ActiveTable[i][2])
                    /\ IsQuotient(parts[1], probe, ActiveTable[i][1])
        /\ \A i \in 1..Len(ActiveTable) :
              LET D == ActiveTable[i][1]
              IN  /\ probe = MulN(D, Ten) =>
                        IF i = Len(ActiveTable)
                        THEN parts = <<probe, Some("B")>>
                        ELSE /\ parts[2] = Some(ActiveTable[i + 1][2])
                             /\ IsQuotient(parts[1], probe, ActiveTable[i + 1][1])
                  /\ probe = AddN(MulN(D, Ten), One) =>
                        /\ parts[2] = Some(ActiveTable[i][2])
                        /\ IsQuotient(parts[1], probe, D)

\* 10 * 1_000_000_000_000 with --si is rendered in G.
C5_Witness ==
    /\ HumanParts
    /\ formatter.si
    /\ probe = Dec(<<10, 000, 000, 000, 000>>)
    /\ parts = <<Dec(<<10, 000>>), Some("G")>>

(***************************************************************************)
(* C6                                                                      *)
(***************************************************************************)

\* C6, as claimed: with a suffix K, M, G or T the integer returned is > 10,
\* and no larger unit of the table would give an integer > 10.
C6_ValueAboveTen ==
    (HumanParts /\ parts[2] # Some("B")) =>
        /\ Less(Ten, parts[1])
        /\ \A j \in 1..Len(ActiveTable) :
              (parts[2] # Some(ActiveTable[j][2])
                  /\ \E i \in 1..Len(ActiveTable) :
                        /\ parts[2] = Some(ActiveTable[i][2])
                        /\ Less(ActiveTable[i][1], ActiveTable[j][1]))
              => Leq(DivN(probe, ActiveTable[j][1]), Ten)

\* C6, amended: with a suffix K, M, G or T of divisor D the size is > 10 * D
\* and the integer returned, size div D, is >= 10; no larger unit of the table
\* would give an integer > 10.
C6_ValueAtLeastTen ==
    (HumanParts /\ parts[2] # Some("B")) =>
        \E i \in 1..Len(ActiveTable) :
            /\ parts[2] = Some(ActiveTable[i][2])
            /\ Less(MulN(ActiveTable[i][1], Ten), probe)
            /\ IsQuotient(parts[1], probe, ActiveTable[i][1])
            /\ Leq(Ten, parts[1])
            /\ \A j \in 1..Len(ActiveTable) :
                  Less(ActiveTable[i][1], ActiveTable[j][1])
                      => LET q == DivN(probe, ActiveTable[j][1])
                         IN  /\ IsQuotient(q, probe, ActiveTable[j][1])
                             /\ Leq(q, Ten)

\* 10 241 bytes are rendered as 10K.
C6_Witness ==
    /\ HumanParts
    /\ ~formatter.si
    /\ probe = Dec(<<10, 241>>)
    /\ parts = <<Ten, Some("K")>>

(***************************************************************************)
(* C7                                                                      *)
(***************************************************************************)

ModeOfFlag(f) ==
    CASE f = "bytes" -> "Bytes"
      [] f = "kilobytes" -> "Kilobytes"
      [] f = "megabytes" -> "Megabytes"
      [] f = "gigabytes" -> "Gigabytes"
      [] f = "human" -> "Human"

\* C7: two or more size-mode flags are rejected before any traversal, with
\* nothing on stdout and exit code 2; one flag selects its mode, none Bytes.
C7_ModeFlagsExclusive ==
    pc # "start" =>
        IF Cardinality(argv.flags) >= 2
        THEN /\ pc = "done"
             /\ exit_code = <<2>>
             /\ stdout = <<>>
             /\ ~root_opened /\ tree = EmptyTree /\ by_user = EmptyMap
        ELSE /\ exit_code # <<2>>
             /\ \A f \in argv.flags : formatter.mode = ModeOfFlag(f)
             /\ argv.flags = {} => formatter.mode = "Bytes"

\* -h -k is rejected.
C7_Witness ==
    /\ argv.flags = {"human", "kilobytes"}
    /\ pc = "done"
    /\ exit_code = <<2>>

(***************************************************************************)
(* C8                                                                      *)
(***************************************************************************)

\* KiB, MiB, GiB and their decimal counterparts.
DivisorOf(mode, si) ==
    CASE mode = "Kilobytes" -> IF si THEN Dec(<<1, 000>>) ELSE Dec(<<1, 024>>)
      [] mode = "Megabytes" ->
            IF si THEN Dec(<<1, 000, 000>>) ELSE Dec(<<1, 048, 576>>)
      [] mode = "Gigabytes" ->
            IF si THEN Dec(<<1, 000, 000, 000>>) ELSE Dec(<<1, 073, 741, 824>>)

\* C8: get_parts returns (size, no suffix) in Bytes mode and (size div
\* divisor, no suffix) in Kilobytes, Megabytes and Gigabytes mode, the divisor
\* being that of (mode, si); only Human mode returns a suffix.
C8_ExplicitModes ==
    pc \in {"parts", "shown"} =>
        /\ (parts[2] # None) <=> (formatter.mode = "Human")
        /\ formatter.mode = "Bytes" => parts = <<probe, None>>
        /\ formatter.mode \in {"Kilobytes", "Megabytes", "Gigabytes"} =>
              IsQuotient(parts[1], probe, DivisorOf(formatter.mode, formatter.si))
        /\ pc = "shown" /\ formatter.mode # "Human" => text = U64ToString(parts[1])

\* 1 572 864 bytes (1.5 MiB) in Megabytes mode are 1.
C8_Witness ==
    /\ pc = "parts"
    /\ formatter = [si |-> FALSE, mode |-> "Megabytes"]
    /\ probe = Dec(<<1, 572, 864>>)
    /\ parts = <<One, None>>

(***************************************************************************)
(* C9                                                                      *)
(***************************************************************************)

\* Every key of the Aggregate owns a regular file already visited.
KeysHaveFiles ==
    \A u \in DOMAIN by_user :
        \E e \in Entries : e.kind = "file" /\ e.uid = u /\ Visited[e] > 0

\* A step of the loop on an entry that is an error or no regular file changes
\* nothing in the Aggregate, and the loop goes on.
SkippedEntryLeavesAggregate ==
    \A e \in Entries :
        (pc = "walk" /\ walker[e] > 0 /\ walker' = TreeRemove(walker, e)
            /\ e.kind # "file")
        => (by_user' = by_user /\ pc' = "walk" /\ exit_code' = exit_code)

\* C9: during traversal every UID key of the Aggregate owns a regular file
\* already visited; an error entry or an entry that is no regular file leaves
\* the Aggregate as it is, and traversal continues.
C9_OnlyRegularFilesCount ==
    []KeysHaveFiles /\ [][SkippedEntryLeavesAggregate]_vars

\* A symlink owned by 1000 was passed over, a file of root was counted, and
\* there is more to visit.
C9_Witness ==
    /\ pc = "walk"
    /\ walker # EmptyTree
    /\ \E e \in Entries : e.kind = "symlink" /\ e.uid = 1000 /\ Visited[e] > 0
    /\ DOMAIN by_user = {0}

(***************************************************************************)
(* C10                                                                     *)
(***************************************************************************)

\* C10: the addition into a total never overflows: at every step each total is
\* the sum of the sizes counted so far, and the run is never aborted.
C10_NoOverflow ==
    /\ exit_code # <<101>>
    /\ pc = "walk" => \A u \in DOMAIN by_user : by_user[u] = OwnedBytes(Visited, u)

=============================================================================
